---- MODULE Spec2Model ----
(***************************************************************************)
(* Model of download.py: the business-day sequencer (daterange), the       *)
(* fixed-window rate limiter and the per-day loop of main(), run several   *)
(* times in sequence against one output directory.                         *)
(*                                                                         *)
(* Time is counted in tenths of a second, so that the 60 s window is 600   *)
(* ticks and the 0.1 s safety margin of the sleep is 1 tick.               *)
(***************************************************************************)
EXTENDS Integers, Sequences, FiniteSets, TLC

VARIABLES
    now,             \* time.time() in ticks of 0.1 s, from the process's start
    files,           \* the output directory: csv path -> [bars, complete]
    pc,              \* position of the process: idle / loop / fetch / write
    status,          \* how the last process ended: none / exited / killed
    run,             \* number of processes started so far
    offered,         \* the command lines a process may be started with
    max_runs,        \* how many processes are started one after the other
    args,            \* argparse result of the current process
    days,            \* the sequence daterange(args.start, args.end) yields
    i,               \* index in days of the day the for loop is at
    reqs_in_window,  \* main(): reqs_in_window
    window_start,    \* main(): window_start
    df,              \* bars of the DataFrame being written by to_csv
    log,             \* lines printed by this process: [tag, day]
    calls,           \* fetch_day calls of this process: [day, ret]
    sleeps,          \* number of time.sleep calls of this process
    attempts,        \* fetch_day calls since window_start was last set
    last_disp,       \* the last dispatch: its rank in its window and its delay
    open_wins,       \* 60 s windows opened by a first request, still running
    need_first,      \* no request dispatched yet since the last reset / start
    at_start,        \* the paths that existed when this process started
    prev,            \* the previous process: its args and the files it produced
    dr_in,           \* sequencer harness: the (start, end) drawn, and called
    dr_out,          \* sequencer harness: what daterange yielded
    env,             \* the surroundings: is api_key.txt readable, and how
                     \* long an existence check and a fetch may take
    outdir,          \* the output directory exists
    writer           \* csv path -> the --ticker of the process that wrote it

vars == <<now, files, pc, status, run, offered, max_runs, args, days, i, reqs_in_window,
          window_start, df, log, calls, sleeps, attempts, last_disp,
          open_wins, need_first, at_start, prev, dr_in, dr_out, env, outdir,
          writer>>

-----------------------------------------------------------------------------
(* Bounds of the model *)

MaxRuns == 2        \* processes started one after the other
ShortSpan == 4      \* calendar days from --start to --end, repeated runs
SpanDays == 9       \* calendar days from --start to --end, rate limiting
DRSpan == 13        \* calendar days the sequencer harness draws bounds from
BurstSpan == 13     \* calendar days from --start to --end, two full windows

(* Program constants *)

K == 5              \* requests per window
WINDOW == 600       \* 60 s
MARGIN == 1         \* 0.1 s

-----------------------------------------------------------------------------
(* Calendar: a date string "YYYY-MM-DD" is the tuple <<y, m, d>>; a Timestamp *)
(* is the number of days since 2025-01-01, which is a Wednesday.             *)

DaysInMonth(m) ==
    CASE m = 2 -> 28
      [] m \in {4, 6, 9, 11} -> 30
      [] OTHER -> 31

RECURSIVE DaysBefore(_)
DaysBefore(m) == IF m = 1 THEN 0 ELSE DaysBefore(m - 1) + DaysInMonth(m - 1)

to_datetime(s) == DaysBefore(s[2]) + s[3] - 1

RECURSIVE MonthOf(_, _)
MonthOf(n, m) ==
    IF n < DaysBefore(m) + DaysInMonth(m) THEN m ELSE MonthOf(n, m + 1)

strftime(n) == <<2025, MonthOf(n, 1), n - DaysBefore(MonthOf(n, 1)) + 1>>

weekday(n) == (n + 2) % 7

\* bug: the step is two business days
BDay_two(n) ==
    CASE (n + 2) % 7 \in {3, 4} -> n + 4
      [] (n + 2) % 7 = 5 -> n + 3
      [] OTHER -> n + 2

\* cur + BDay(): the next business day strictly after cur
BDay(n) ==
    CASE weekday(n) = 4 -> n + 3
      [] weekday(n) = 5 -> n + 2
      [] OTHER -> n + 1

\* bug: the weekday filter of line 66 is left out
IsYielded_all(cur) == TRUE

\* line 66
IsYielded(cur) == weekday(cur) < 5

RECURSIVE DateLoop(_, _, _)
DateLoop(cur, end, acc) ==
    IF cur <= end
    THEN DateLoop(BDay(cur), end,
                  IF IsYielded(cur) THEN Append(acc, strftime(cur)) ELSE acc)
    ELSE acc

daterange(start, end) == DateLoop(to_datetime(start), to_datetime(end), <<>>)

-----------------------------------------------------------------------------
(* Inputs *)

SPY == <<"S", "P", "Y">>
ISPX == <<"I", ":", "S", "P", "X">>
I_SPX == <<"I", "_", "S", "P", "X">>
Tickers == {SPY, ISPX, I_SPX}

FirstStart == <<2025, 6, 7>>        \* a Saturday

PlusDays(s, n) == strftime(to_datetime(s) + n)

\* command lines of the repeated runs: a one-day range and a longer one
ShortArgs == [ticker : {SPY}, start : {FirstStart},
              end : {PlusDays(FirstStart, 2), PlusDays(FirstStart, ShortSpan)}]
\* command line of the rate-limited run: more than K days
LongArgs == [ticker : {SPY}, start : {FirstStart},
             end : {PlusDays(FirstStart, SpanDays)}]
NoArgs == [ticker |-> <<>>, start |-> <<>>, end |-> <<>>]

CheckDur == {0, 100}                \* duration of csv_path.exists()
FetchDur == {100, 200}               \* duration of fetch_day
SleepOver == {0, 2}                 \* time.sleep returning late
Bars == {0, 390}                    \* resultsCount of the response

-----------------------------------------------------------------------------
(* Output paths and the directory *)

RECURSIVE replace(_)
replace(t) ==
    IF t = <<>> THEN <<>>
    ELSE <<IF Head(t) = ":" THEN "_" ELSE Head(t)>> \o replace(Tail(t))

csv_path(ticker, day) == [stem |-> replace(ticker), day |-> day]

AllDays == {strftime(n) :
              n \in to_datetime(FirstStart) ..
                       to_datetime(FirstStart) + SpanDays + ShortSpan}
Paths == {csv_path(t, d) : t \in Tickers, d \in AllDays}

Absent == [exists |-> FALSE, bars |-> 0, complete |-> FALSE]
Opened == [exists |-> TRUE, bars |-> 0, complete |-> FALSE]
Written(n) == [exists |-> TRUE, bars |-> n, complete |-> TRUE]

\* bug: the existence check never finds the file
exists_never(p) == FALSE

\* bug: the existence check looks at the directory, which is always there
exists_always(p) == TRUE

\* line 90: csv_path.exists()
exists(p) == files[p].exists

\* bug: an empty DataFrame is written like any other
empty_never(n) == FALSE

\* line 108: df.empty, for a DataFrame of n bars
empty(n) == n = 0

-----------------------------------------------------------------------------
(* The rate limiter *)

\* bug: the count is compared with K but never reset
Gate_never_resets(reqs, ws, t, over) ==
    [reqs |-> reqs, ws |-> ws, now |-> t,
     slept |-> FALSE, arg |-> 0, reset |-> FALSE]

\* bug: the sleep is for the remaining time only, without the margin
Gate_no_margin(reqs, ws, t, over) ==
    IF reqs = K
    THEN LET delta == WINDOW - (t - ws)
             t2 == IF delta > 0 THEN t + delta + over ELSE t
         IN  [reqs |-> 0, ws |-> t2, now |-> t2,
              slept |-> (delta > 0), arg |-> delta, reset |-> TRUE]
    ELSE [reqs |-> reqs, ws |-> ws, now |-> t,
          slept |-> FALSE, arg |-> 0, reset |-> FALSE]

\* bug: the test of line 97 is missing, the sleep is always asked for and
\* returns at once when its argument is not positive
Gate_always_sleeps(reqs, ws, t, over) ==
    IF reqs = K
    THEN LET delta == WINDOW - (t - ws)
             t2 == IF delta + MARGIN > 0 THEN t + delta + MARGIN + over ELSE t
         IN  [reqs |-> 0, ws |-> t2, now |-> t2,
              slept |-> TRUE, arg |-> delta + MARGIN, reset |-> TRUE]
    ELSE [reqs |-> reqs, ws |-> ws, now |-> t,
          slept |-> FALSE, arg |-> 0, reset |-> FALSE]

\* lines 95-100, entered at time t; over is how late time.sleep returns;
\* arg is what time.sleep is called with
Gate(reqs, ws, t, over) ==
    IF reqs = K
    THEN LET delta == WINDOW - (t - ws)
             t2 == IF delta > 0 THEN t + delta + MARGIN + over ELSE t
         IN  [reqs |-> 0, ws |-> t2, now |-> t2,
              slept |-> (delta > 0),
              arg |-> IF delta > 0 THEN delta + MARGIN ELSE 0,
              reset |-> TRUE]
    ELSE [reqs |-> reqs, ws |-> ws, now |-> t,
          slept |-> FALSE, arg |-> 0, reset |-> FALSE]

\* bug: the limiter is passed before the existence check
LimiterStep_always(found, reqs, ws, t, over) == Gate(reqs, ws, t, over)

\* lines 90-100: what one iteration does to the limiter before it fetches
LimiterStep(found, reqs, ws, t, over) ==
    IF found
    THEN [reqs |-> reqs, ws |-> ws, now |-> t,
          slept |-> FALSE, arg |-> 0, reset |-> FALSE]
    ELSE Gate(reqs, ws, t, over)

\* bug: the continue of line 92 is missing
Fetches_always(found) == TRUE

\* lines 90-92 and 103: whether the iteration goes on to fetch_day
Fetches(found) == ~found

\* lines 104-106 and 114: the count after a fetch with this outcome
Counted(reqs, outcome) == IF outcome = "warn" THEN reqs ELSE reqs + 1

\* bug: the exception of fetch_day is not caught and ends the process
AfterError_abort == "idle"

\* lines 104-106: where the loop goes after fetch_day raised
AfterError == "loop"

-----------------------------------------------------------------------------
(* Bookkeeping of the dispatches, for the rate claims *)

Dispatch(wins, first, t) ==
    LET all == IF first THEN wins \cup {[first |-> t, n |-> 0]} ELSE wins
        live == {w \in all : t < w.first + WINDOW}
    IN  {[first |-> w.first, n |-> w.n + 1] : w \in live}

-----------------------------------------------------------------------------
(* The processes *)

NoDisp == [rank |-> 0, since |-> 0, entered |-> 0, slept |-> FALSE, arg |-> 0]
NoPrev == [args |-> NoArgs, status |-> "none", produced |-> {}, complete |-> {},
           unfiled |-> {}, ever |-> {}]
NoWriter == [p \in Paths |-> <<>>]
NoCall == [start |-> <<>>, end |-> <<>>, called |-> FALSE]

Line(tag, day) == [tag |-> tag, day |-> day]

\* the surroundings of a process: the key is there, a check and a fetch take
\* one of their durations
Usual == [key |-> TRUE, check |-> CheckDur, fetch |-> FetchDur]

\* the same with existence checks that take no time
Brisk == [key |-> TRUE, check |-> {0}, fetch |-> FetchDur]

Start(dir, cmds, n, call, e) ==
    /\ now = 0
    /\ files = dir
    /\ pc = "idle"
    /\ status = "none"
    /\ run = 0
    /\ offered = cmds
    /\ max_runs = n
    /\ args = NoArgs
    /\ days = <<>>
    /\ i = 1
    /\ reqs_in_window = 0
    /\ window_start = 0
    /\ df = 0
    /\ log = <<>>
    /\ calls = <<>>
    /\ sleeps = 0
    /\ attempts = 0
    /\ last_disp = NoDisp
    /\ open_wins = {}
    /\ need_first = TRUE
    /\ at_start = {}
    /\ prev = NoPrev
    /\ dr_in = call
    /\ dr_out = <<>>
    /\ env = e
    /\ outdir = FALSE
    /\ writer = NoWriter

EmptyDir == [p \in Paths |-> Absent]

\* the directory is empty, or holds the file of one day of the command line
Dirs == {EmptyDir} \cup
        {[EmptyDir EXCEPT ![csv_path(a.ticker, daterange(a.start, a.end)[k])]
                             = Written(1)] :
           a \in LongArgs, k \in 1 .. Len(daterange(FirstStart, PlusDays(FirstStart, SpanDays)))}

\* repeated runs over a short range, from an empty directory
Init == Start(EmptyDir, ShortArgs, MaxRuns, NoCall, Brisk)

\* one run over more than K days
InitRate == \E dir \in Dirs : Start(dir, LongArgs, 1, NoCall, Usual)

\* the days these calls fetched without getting bars
Unfiled(cs) ==
    {cs[k].day : k \in {j \in DOMAIN cs : cs[j].ret \in {"raised", "empty"}}}

\* bug: the key is read when the first request is built, not at import
Proceeds_anyway(readable) == TRUE

\* lines 30-32: open(API_KEY_PATH) raises unless the file can be read, and
\* the module is left before main is reached
Proceeds(readable) == readable

\* lines 30-32 and 70-86: a process is started on the command line
StartRun(a) ==
    /\ pc = "idle"
    /\ run < max_runs
    /\ a \in offered
    /\ run' = run + 1
    /\ IF Proceeds(env.key)
       THEN /\ args' = a
            /\ days' = daterange(a.start, a.end)
            /\ outdir' = TRUE
            /\ i' = 1
            /\ reqs_in_window' = 0
            /\ now' = 0
            /\ window_start' = now'
            /\ pc' = "loop"
            /\ status' = "none"
            /\ df' = 0
            /\ log' = <<>>
            /\ calls' = <<>>
            /\ sleeps' = 0
            /\ attempts' = 0
            /\ last_disp' = NoDisp
            /\ open_wins' = {}
            /\ need_first' = TRUE
            /\ at_start' = {p \in Paths : files[p].exists}
            /\ prev' = [args |-> args, status |-> status,
                        produced |-> {p \in Paths : files[p].exists} \ at_start,
                        complete |-> {p \in Paths \ at_start : files[p].complete},
                        unfiled |-> Unfiled(calls),
                        ever |-> prev.ever \cup Unfiled(calls)]
       ELSE /\ pc' = "idle"
            /\ status' = "crashed"
            /\ UNCHANGED <<args, days, outdir, i, reqs_in_window, now,
                           window_start, df, log, calls, sleeps, attempts,
                           last_disp, open_wins, need_first, at_start, prev>>
    /\ UNCHANGED <<files, offered, max_runs, dr_in, dr_out, env, writer>>

\* lines 88-100 and the call of line 103: the next day is pulled, its path is
\* checked, and unless it is skipped the limiter is passed and fetch_day called
BeginDay(d, over) ==
    /\ pc = "loop"
    /\ i <= Len(days)
    /\ LET day == days[i]
           found == exists(csv_path(args.ticker, day))
           g == LimiterStep(found, reqs_in_window, window_start, now + d, over)
       IN  /\ now' = g.now
           /\ reqs_in_window' = g.reqs
           /\ window_start' = g.ws
           /\ sleeps' = IF g.slept THEN sleeps + 1 ELSE sleeps
           /\ IF Fetches(found)
              THEN /\ pc' = "fetch"
                   /\ calls' = Append(calls, [day |-> day, ret |-> "pending"])
                   /\ attempts' = IF g.reset THEN 1 ELSE attempts + 1
                   /\ last_disp' = [rank |-> attempts + 1,
                                    since |-> g.now - window_start,
                                    entered |-> now + d,
                                    slept |-> g.slept, arg |-> g.arg]
                   /\ open_wins' = Dispatch(open_wins, need_first \/ g.reset, g.now)
                   /\ need_first' = FALSE
                   /\ UNCHANGED <<log, i>>
              ELSE /\ pc' = "loop"
                   /\ log' = Append(log, Line("skip", day))
                   /\ i' = i + 1
                   /\ attempts' = IF g.reset THEN 0 ELSE attempts
                   /\ need_first' = (need_first \/ g.reset)
                   /\ UNCHANGED <<calls, last_disp, open_wins>>
    /\ UNCHANGED <<files, status, run, offered, max_runs, args, days, df, at_start, prev,
                   dr_in, dr_out, env, outdir, writer>>

\* lines 103-106: fetch_day raises (transport error, HTTP status, bad JSON)
FetchRaises(dur) ==
    /\ pc = "fetch"
    /\ now' = now + dur
    /\ calls' = [calls EXCEPT ![Len(calls)].ret = "raised"]
    /\ log' = Append(log, Line("warn", days[i]))
    /\ reqs_in_window' = Counted(reqs_in_window, "warn")
    /\ i' = i + 1
    /\ pc' = AfterError
    /\ status' = IF AfterError = "loop" THEN status ELSE "crashed"
    /\ UNCHANGED <<files, run, offered, max_runs, args, days, window_start, df,
                   sleeps, attempts, last_disp, open_wins, need_first, at_start,
                   prev, dr_in, dr_out, env, outdir, writer>>

\* lines 103, 108-111, 114: fetch_day returns a DataFrame of n bars; an empty
\* one is reported, any other is handed to to_csv, which opens csv_path
FetchReturns(n, dur) ==
    /\ pc = "fetch"
    /\ now' = now + dur
    /\ calls' = [calls EXCEPT ![Len(calls)].ret = IF n = 0 THEN "empty" ELSE "data"]
    /\ IF empty(n)
       THEN /\ log' = Append(log, Line("info", days[i]))
            /\ reqs_in_window' = Counted(reqs_in_window, "info")
            /\ i' = i + 1
            /\ pc' = "loop"
            /\ UNCHANGED <<files, df, writer>>
       ELSE /\ df' = n
            /\ files' = [files EXCEPT ![csv_path(args.ticker, days[i])] = Opened]
            /\ writer' = [writer EXCEPT ![csv_path(args.ticker, days[i])] = args.ticker]
            /\ pc' = "write"
            /\ UNCHANGED <<log, reqs_in_window, i>>
    /\ UNCHANGED <<status, run, offered, max_runs, args, days, window_start,
                   sleeps, attempts, last_disp, open_wins, need_first, at_start,
                   prev, dr_in, dr_out, env, outdir>>

\* lines 111-114: to_csv writes the rows and closes the file
WriteDone ==
    /\ pc = "write"
    /\ files' = [files EXCEPT ![csv_path(args.ticker, days[i])] = Written(df)]
    /\ log' = Append(log, Line("ok", days[i]))
    /\ reqs_in_window' = Counted(reqs_in_window, "ok")
    /\ i' = i + 1
    /\ df' = 0
    /\ pc' = "loop"
    /\ UNCHANGED <<now, status, run, offered, max_runs, args, days, window_start, calls, sleeps,
                   attempts, last_disp, open_wins, need_first, at_start, prev,
                   dr_in, dr_out, env, outdir, writer>>

\* line 88: daterange is exhausted, main returns
Exit ==
    /\ pc = "loop"
    /\ i > Len(days)
    /\ pc' = "idle"
    /\ status' = "exited"
    /\ UNCHANGED <<now, files, run, offered, max_runs, args, days, i, reqs_in_window,
                   window_start, df, log, calls, sleeps, attempts, last_disp,
                   open_wins, need_first, at_start, prev, dr_in, dr_out, env, outdir, writer>>

\* the process is terminated from outside, wherever it is
Kill ==
    /\ pc \in {"loop", "fetch", "write"}
    /\ pc' = "idle"
    /\ status' = "killed"
    /\ UNCHANGED <<now, files, run, offered, max_runs, args, days, i, reqs_in_window,
                   window_start, df, log, calls, sleeps, attempts, last_disp,
                   open_wins, need_first, at_start, prev, dr_in, dr_out, env, outdir, writer>>

Next ==
    \/ \E a \in offered : StartRun(a)
    \/ \E d \in env.check, over \in SleepOver : BeginDay(d, over)
    \/ \E dur \in env.fetch : FetchRaises(dur)
    \/ \E n \in Bars, dur \in env.fetch : FetchReturns(n, dur)
    \/ WriteDone
    \/ Exit
    \/ Kill

Spec == Init /\ [][Next]_vars

SpecRate == InitRate /\ [][Next]_vars

-----------------------------------------------------------------------------
(* The sequencer on its own: daterange called on bounds drawn from a window *)
(* of calendar days that holds two weekends and the end of a month          *)

DRFirst == <<2025, 6, 25>>          \* a Wednesday
DRDates == {PlusDays(DRFirst, n) : n \in 0 .. DRSpan}

InitDR ==
    \E s \in DRDates, e \in DRDates :
        Start(EmptyDir, {}, 0, [start |-> s, end |-> e, called |-> FALSE], Usual)

\* lines 62-68, run to exhaustion
DrCall ==
    /\ ~dr_in.called
    /\ dr_out' = daterange(dr_in.start, dr_in.end)
    /\ dr_in' = [dr_in EXCEPT !.called = TRUE]
    /\ UNCHANGED <<now, files, pc, status, run, offered, max_runs, args, days,
                   i, reqs_in_window, window_start, df, log, calls, sleeps,
                   attempts, last_disp, open_wins, need_first, at_start, prev,
                   env, outdir, writer>>

NextDR == DrCall

SpecDR == InitDR /\ [][NextDR]_vars

-----------------------------------------------------------------------------
(* Vocabulary of the claims *)

PathOf(day) == csv_path(args.ticker, day)

\* number of fetch_day calls of this process for one day
CallsFor(day) == Cardinality({k \in DOMAIN calls : calls[k].day = day})

\* the path was created by this process
Created(p) == files[p].exists /\ p \notin at_start

\* order of date strings, read off the strings
DateLess(a, b) ==
    \/ a[1] < b[1]
    \/ a[1] = b[1] /\ a[2] < b[2]
    \/ a[1] = b[1] /\ a[2] = b[2] /\ a[3] < b[3]

\* the Saturdays and Sundays of June and July 2025, from the calendar
Weekend == {<<2025, 6, 1>>, <<2025, 6, 7>>, <<2025, 6, 8>>, <<2025, 6, 14>>,
            <<2025, 6, 15>>, <<2025, 6, 21>>, <<2025, 6, 22>>, <<2025, 6, 28>>,
            <<2025, 6, 29>>, <<2025, 7, 5>>, <<2025, 7, 6>>, <<2025, 7, 12>>,
            <<2025, 7, 13>>, <<2025, 7, 19>>, <<2025, 7, 20>>, <<2025, 7, 26>>,
            <<2025, 7, 27>>}

\* the process at hand was started again with the command line of the last one
SameCommand == run >= 2 /\ prev.args = args

-----------------------------------------------------------------------------
\* C1: in the 60 seconds that follow the first request dispatched after a
\* window reset (or after the start of the process), at most K calls of
\* fetch_day are dispatched.
C1_AtMostKPerWindow == \A w \in open_wins : w.n <= K

\* C2: the (K+1)-th fetch_day call dispatched since window_start was last set
\* is dispatched 60 seconds or more after that window_start.
C2_NextWaitsForWindow == last_disp.rank = K + 1 => last_disp.since >= WINDOW

\* C3: a process started with the command line of the one before it calls
\* fetch_day for no day the earlier one produced a file for, and once it has
\* exited it has printed [skip] for each of those days.
C3_SecondRunSkips ==
    SameCommand =>
        /\ \A k \in DOMAIN calls : PathOf(calls[k].day) \notin prev.produced
        /\ status = "exited" =>
              \A p \in prev.produced :
                 \E k \in DOMAIN log : log[k] = Line("skip", p.day)

C3_Witness ==
    /\ SameCommand
    /\ status = "exited"
    /\ Len(days) > 1
    /\ prev.produced /= {}
    /\ calls /= <<>>

\* C4: a file that exists is left as it is by every step, except the step of
\* to_csv that completes the file this process opened after finding it absent.
C4_NeverRewritten ==
    [][\A p \in Paths :
          files[p].exists =>
             \/ files'[p] = files[p]
             \/ /\ pc = "write"
                /\ p = PathOf(days[i])
                /\ p \notin at_start
                /\ files[p] = Opened
                /\ files'[p] = Written(df)]_vars

C4_Witness ==
    /\ run = 2
    /\ \E k \in DOMAIN log :
          /\ log[k].tag = "skip"
          /\ files[PathOf(log[k].day)].complete
    /\ \E k \in DOMAIN log : log[k].tag = "ok"

\* C5: a process started with the command line of a process that was killed
\* skips only days whose file was written completely.
C5_SafeResume ==
    (SameCommand /\ prev.status = "killed") =>
        \A k \in DOMAIN log :
           log[k].tag = "skip" => files[PathOf(log[k].day)].complete

\* C6: a day whose fetch raised has no file, was fetched once, did not end the
\* process, and the loop went on: every day before the current one has its
\* line, and a process that exited has a line for every day.
C6_ErrorBoundary ==
    (\E k \in DOMAIN log : log[k].tag = "warn") =>
        /\ \A k \in DOMAIN log :
              log[k].tag = "warn" =>
                 /\ ~files[PathOf(log[k].day)].exists
                 /\ CallsFor(log[k].day) = 1
        /\ status /= "crashed"
        /\ pc = "loop" => Len(log) = i - 1
        /\ status = "exited" =>
              \A k \in DOMAIN days : \E j \in DOMAIN log : log[j].day = days[k]

C6_Witness ==
    /\ status = "exited"
    /\ Len(days) > 1
    /\ log[1].tag = "warn"
    /\ log[2].tag = "ok"

\* C7: the step that skips a day calls neither fetch_day nor time.sleep and
\* leaves reqs_in_window, window_start and the directory as they are.
C7_SkipTouchesNothing ==
    [][(Len(log') = Len(log) + 1 /\ log'[Len(log')].tag = "skip") =>
          /\ calls' = calls
          /\ sleeps' = sleeps
          /\ reqs_in_window' = reqs_in_window
          /\ window_start' = window_start
          /\ files' = files]_vars

C7_Witness ==
    /\ log /= <<>>
    /\ log[Len(log)].tag = "skip"
    /\ reqs_in_window = K

\* C8: fetch_day is called in ascending day order, never twice for a day,
\* once for every day dealt with whose file was absent when the process came
\* to it, and never for a day whose file existed or that is still to come.
C8_OncePerAbsentDay ==
    /\ \A k \in 1 .. Len(calls) - 1 : DateLess(calls[k].day, calls[k + 1].day)
    /\ \A k \in DOMAIN calls : \E j \in DOMAIN days : days[j] = calls[k].day
    /\ \A k \in DOMAIN days :
          /\ CallsFor(days[k]) <= 1
          /\ PathOf(days[k]) \in at_start => CallsFor(days[k]) = 0
          /\ (k < i /\ PathOf(days[k]) \notin at_start) => CallsFor(days[k]) = 1
          /\ k > i => CallsFor(days[k]) = 0

C8_Witness ==
    /\ status = "exited"
    /\ Len(calls) >= 2
    /\ \E k \in DOMAIN days : PathOf(days[k]) \in at_start

\* C9: every day dealt with has exactly one line, tagged skip, warn, info or
\* ok, and this process created the day's file exactly if the day was not
\* skipped and fetch_day returned bars, which is when the line says ok.
C9_OneOutcomePerDay ==
    /\ Len(log) = i - 1
    /\ \A k \in DOMAIN log :
          /\ log[k].day = days[k]
          /\ log[k].tag \in {"skip", "warn", "info", "ok"}
          /\ Created(PathOf(days[k])) <=>
                /\ PathOf(days[k]) \notin at_start
                /\ \E c \in DOMAIN calls :
                      calls[c].day = days[k] /\ calls[c].ret = "data"
          /\ Created(PathOf(days[k])) <=> log[k].tag = "ok"

C9_Witness ==
    /\ status = "exited"
    /\ \E k \in DOMAIN log : log[k].tag = "info"
    /\ \E k \in DOMAIN log : log[k].tag = "ok"
    /\ \E k \in DOMAIN log : log[k].tag = "warn"

\* C10: every day daterange yields is a Monday-to-Friday date between start
\* and end, and each is later than the one yielded before it.
C10_WeekdaysInRange ==
    dr_in.called =>
        /\ \A k \in DOMAIN dr_out :
              /\ dr_out[k] \notin Weekend
              /\ ~DateLess(dr_out[k], dr_in.start)
              /\ ~DateLess(dr_in.end, dr_out[k])
        /\ \A k \in 1 .. Len(dr_out) - 1 : DateLess(dr_out[k], dr_out[k + 1])

C10_Witness ==
    /\ dr_in.called
    /\ dr_in.start \in Weekend
    /\ Len(dr_out) >= 6

\* the days of June and July 2025, from the calendar
Calendar == {<<2025, 6, d>> : d \in 1 .. 30} \cup {<<2025, 7, d>> : d \in 1 .. 31}

\* C11: daterange yields each Monday-to-Friday date between start and end,
\* bounds included, once and nothing else; it yields nothing when start is
\* later than end.
C11_AllWeekdaysOnce ==
    dr_in.called =>
        /\ {dr_out[k] : k \in DOMAIN dr_out} =
              {d \in Calendar \ Weekend :
                 ~DateLess(d, dr_in.start) /\ ~DateLess(dr_in.end, d)}
        /\ \A j, k \in DOMAIN dr_out : dr_out[j] = dr_out[k] => j = k
        /\ DateLess(dr_in.end, dr_in.start) => dr_out = <<>>

C11_Witness ==
    /\ dr_in.called
    /\ dr_in.start \notin Weekend
    /\ dr_in.end \notin Weekend
    /\ dr_out /= <<>>
    /\ dr_out[1] = dr_in.start
    /\ dr_out[Len(dr_out)] = dr_in.end
    /\ Len(dr_out) >= 8

\* C12: reqs_in_window is never below 0 and never above K.
C12_CountWithinCeiling == reqs_in_window >= 0 /\ reqs_in_window <= K

C12_Witness ==
    /\ Len(calls) > K
    /\ sleeps = 1
    /\ reqs_in_window = 1
    /\ pc = "loop"

-----------------------------------------------------------------------------
(* One process that nothing terminates from outside: every fetch returns or *)
(* raises, every sleep ends, and the process takes its next step            *)

InitLive ==
    \E dir \in Dirs : Start(dir, ShortArgs \cup LongArgs, 1, NoCall, Brisk)

NextLive ==
    \/ \E a \in offered : StartRun(a)
    \/ \E d \in env.check, over \in SleepOver : BeginDay(d, over)
    \/ \E dur \in env.fetch : FetchRaises(dur)
    \/ \E n \in Bars, dur \in env.fetch : FetchReturns(n, dur)
    \/ WriteDone
    \/ Exit

SpecLive == InitLive /\ [][NextLive]_vars /\ WF_vars(NextLive)

\* C13: the process ends by leaving the loop normally, with one line for each
\* day of the sequence, in the order of the sequence.
C13_RunsToTheEnd ==
    <>(/\ status = "exited"
       /\ pc = "idle"
       /\ Len(log) = Len(days)
       /\ \A k \in DOMAIN days : log[k].day = days[k])

C13_Witness ==
    /\ status = "exited"
    /\ Len(days) > K
    /\ \A k \in DOMAIN days : log[k].tag = "warn"

-----------------------------------------------------------------------------
(* Repeated runs where api_key.txt may be missing or unreadable *)

InitCred ==
    \E k \in BOOLEAN :
        Start(EmptyDir, ShortArgs, MaxRuns, NoCall,
              [key |-> k, check |-> {0}, fetch |-> FetchDur])

SpecCred == InitCred /\ [][Next]_vars

\* C14: while api_key.txt cannot be read no process gets past its start: no
\* day is pulled, no path checked, no request made, no sleep taken, the
\* limiter is not touched, and neither the output directory nor a file in it
\* is created.
C14_NoKeyNoWork ==
    ~env.key =>
        /\ pc = "idle"
        /\ status \in {"none", "crashed"}
        /\ days = <<>>
        /\ log = <<>>
        /\ calls = <<>>
        /\ sleeps = 0
        /\ reqs_in_window = 0
        /\ attempts = 0
        /\ ~outdir
        /\ files = EmptyDir

C14_Witness ==
    /\ ~env.key
    /\ status = "crashed"
    /\ run >= 2

\* C15: once a day that was fetched is dealt with, its request has been
\* counted: between two days reqs_in_window is the number of fetch_day calls
\* made since window_start was last set.
C15_EveryRequestCounted == pc = "loop" => reqs_in_window = attempts

-----------------------------------------------------------------------------
\* C16: at the step that dispatches a request, entered at time t: with fewer
\* than K requests counted there is no sleep and the count and window_start
\* stay; with K counted there is a sleep exactly if t is less than 60 s after
\* window_start, it lasts the remaining time and the margin or longer, and
\* either way the count is 0 and window_start is the time of the dispatch.
C16_GateStep ==
    [][Len(calls') = Len(calls) + 1 =>
          LET t == last_disp'.entered
          IN  IF reqs_in_window < K
              THEN /\ sleeps' = sleeps
                   /\ reqs_in_window' = reqs_in_window
                   /\ window_start' = window_start
                   /\ now' = t
              ELSE /\ reqs_in_window' = 0
                   /\ window_start' = now'
                   /\ IF t - window_start < WINDOW
                      THEN /\ sleeps' = sleeps + 1
                           /\ last_disp'.arg = WINDOW - (t - window_start) + MARGIN
                           /\ now' >= t + last_disp'.arg
                      ELSE /\ sleeps' = sleeps
                           /\ now' = t]_vars

C16_Witness ==
    /\ pc = "fetch"
    /\ last_disp.slept
    /\ last_disp.entered < now
    /\ reqs_in_window = 0
    /\ window_start = now

\* C17: a day the last process fetched without getting bars (the fetch raised
\* or returned nothing) has no file when the next process of that ticker
\* starts, and that process, once it has dealt with the day, has called
\* fetch_day for it once; so has any later process for a day that some
\* earlier one fetched without getting bars and that still has no file.
C17_UnfiledDayFetchedAgain ==
    (run >= 2 /\ prev.args.ticker = args.ticker) =>
    /\ \A k \in DOMAIN days :
           days[k] \in prev.unfiled =>
              /\ PathOf(days[k]) \notin at_start
              /\ k < i => CallsFor(days[k]) = 1
    /\ \A k \in DOMAIN days :
          (days[k] \in prev.ever /\ PathOf(days[k]) \notin at_start /\ k < i) =>
             CallsFor(days[k]) = 1

C17_Witness ==
    /\ run >= 2
    /\ status = "exited"
    /\ prev.args /= args
    /\ \E k \in DOMAIN days : days[k] \in prev.unfiled
    /\ Cardinality(prev.unfiled) >= 2

\* requests counted so far by the process that printed these lines
CountedIn(lines) ==
    Cardinality({k \in DOMAIN lines : lines[k].tag \in {"info", "ok"}})

-----------------------------------------------------------------------------
(* One process over ten weekdays, two full windows, with fetches of 0.1 s   *)
(* and existence checks that take no time                                   *)

BurstArgs == [ticker : {SPY}, start : {FirstStart},
              end : {PlusDays(FirstStart, BurstSpan)}]

InitBurst ==
    Start(EmptyDir, BurstArgs, 1, NoCall,
          [key |-> TRUE, check |-> {0}, fetch |-> {MARGIN}])

SpecBurst == InitBurst /\ [][Next]_vars

NoneRaised == \A k \in DOMAIN calls : calls[k].ret /= "raised"

-----------------------------------------------------------------------------
(* Repeated runs over two days with tickers that differ in ":" and "_" *)

TickArgs == [ticker : Tickers, start : {FirstStart},
             end : {PlusDays(FirstStart, 3)}]

InitTick ==
    Start(EmptyDir, TickArgs, MaxRuns, NoCall,
          [key |-> TRUE, check |-> {0}, fetch |-> {100}])

SpecTick == InitTick /\ [][Next]_vars

\* C19: a day is skipped only for a file that a process of the same ticker
\* wrote, as it would be if different (ticker, day) pairs had different paths.
C19_SkippedForOwnFile ==
    \A k \in DOMAIN log :
        log[k].tag = "skip" => writer[PathOf(log[k].day)] = args.ticker

====
